---- MODULE Spec2Model ----
(***************************************************************************)
(* msl-loadlib: the 32-bit server (Server32 / RequestHandler) that hosts a *)
(* shared library loaded by LoadLibrary, and the client that talks to it   *)
(* through an HTTP GET line and a pickle exchange file.                    *)
(***************************************************************************)
EXTENDS Integers, Sequences, FiniteSets, TLC

VARIABLES
    pc,                \* position of the server's main thread
    socket,            \* the listening socket of the HTTPServer base class
    launch,            \* the arguments and environment of Server32(...)
    library,           \* Server32._library (the LoadLibrary object)
    raised,            \* the exception that left Server32.__init__, if any
    shutdown_request,  \* HTTPServer's __shutdown_request flag
    is_shut_down,      \* HTTPServer's __is_shut_down event
    workers,           \* threads started by do_GET to run server.shutdown
    pending,           \* requests on the wire, not yet accepted
    fs,                \* the exchange files; for LoadLibrary alone the config file
    h,                 \* the frame of the running / last do_GET call; for
                       \* LoadLibrary alone the record of the constructor's calls
    sent,              \* how many requests the client has issued
    clientDone         \* the client has issued its shutdown request

vars == <<pc, socket, launch, library, raised, shutdown_request, is_shut_down,
          workers, pending, fs, h, sent, clientDone>>

\* ------------------------------------------------------------------ bounds

\* The number of requests the client issues in one behaviour.
MaxRequests == 3

\* How often a caller calls LoadLibrary(path, libtype) with the same
\* arguments, and how many properties it reads of the object it got.
MaxConstructs == 2
MaxReads == 2

\* The number of clients that each start a server of their own.
MaxClients == 3

\* The number of requests that wait while do_GET is running.
MaxPending == 1

\* ------------------------------------------------------------ small helpers

Min(a, b) == IF a <= b THEN a ELSE b

\* The index of the first occurrence of token c in s at or after i, 0 if none.
RECURSIVE IndexFrom(_, _, _)
IndexFrom(s, c, i) ==
    IF i > Len(s) THEN 0
    ELSE IF s[i] = c THEN i
    ELSE IndexFrom(s, c, i + 1)

\* ------------------------------------------------------------ LoadLibrary
\* A path is <<directory, stem, extension>>; directory "" is a relative path.

\* os.path.splitext(path)[1]
splitext_ext(path) == path[3]

\* The extension LoadLibrary appends on each platform (none on any other).
DefaultExtension(platform) ==
    CASE platform = "windows" -> ".dll"
      [] platform = "linux"   -> ".so"
      [] platform = "mac"     -> ".dylib"
      [] OTHER                -> ""

\* os.path.abspath(path)
abspath(path) == IF path[1] = "" THEN <<"/cwd/", path[2], path[3]>> ELSE path

NoPath == <<"", "", "">>
NoException == [kind |-> "", msg |-> "", tb |-> <<>>]
NoLibrary == [loaded |-> FALSE, path |-> NoPath, lib |-> "", net |-> ""]

\* ------------------------------------------ <python-executable>.config
\* The text of the file is a sequence of tokens: a tag, a comment, the XML
\* declaration, a line end, or a character that is no markup.
NL == "\n"
XmlDecl == "<?xml version =\"1.0\"?>"
Comment == "<!-- -->"
PolicyTrue == "<startup useLegacyV2RuntimeActivationPolicy=\"true\">"
PolicyTrueCap == "<startup useLegacyV2RuntimeActivationPolicy=\"True\">"
PolicyFalse == "<startup useLegacyV2RuntimeActivationPolicy=\"false\">"
SupportedRuntime == "<supportedRuntime/>"

NET_FRAMEWORK_DESCRIPTION == <<NL, Comment, NL>>
NET_FRAMEWORK_FIX == <<NL, PolicyTrue, NL, SupportedRuntime, NL, SupportedRuntime, NL,
                       "</startup>", NL>>

NoConfig == [exists |-> FALSE, text |-> <<>>]
ConfigOf(text) == [exists |-> TRUE, text |-> text]

\* The tag name of an opening or closing tag, "" for any other token.
OpenName(t) ==
    CASE t = "<configuration>" -> "configuration"
      [] t = "<config>" -> "config"
      [] t \in {"<startup>", PolicyTrue, PolicyTrueCap, PolicyFalse} -> "startup"
      [] OTHER -> ""
CloseName(t) ==
    CASE t = "</configuration>" -> "configuration"
      [] t = "</config>" -> "config"
      [] t = "</startup>" -> "startup"
      [] OTHER -> ""
EmptyName(t) == IF t = SupportedRuntime THEN "supportedRuntime" ELSE ""

\* A variant of lower: the value as it is written.
as_written(v) == v

\* The value of the useLegacyV2RuntimeActivationPolicy attribute of a tag,
\* "" when the tag has no such attribute; and str.lower of the value.
PolicyAttrib(t) ==
    CASE t = PolicyTrue -> "true"
      [] t = PolicyTrueCap -> "True"
      [] t = PolicyFalse -> "false"
      [] OTHER -> ""
lower(v) == IF v = "True" THEN "true" ELSE v

NoTree == [ok |-> FALSE, root |-> "", children |-> <<>>]

\* ET.parse from token i on: stack holds the open elements, tree the root
\* tag and the root's child elements found so far.
RECURSIVE ParseFrom(_, _, _, _)
ParseFrom(text, i, stack, tree) ==
    IF i > Len(text)
    THEN IF stack = <<>> /\ tree.root # "" THEN [tree EXCEPT !.ok = TRUE] ELSE NoTree
    ELSE LET t == text[i]
             child == IF Len(stack) = 1
                      THEN [tree EXCEPT !.children = Append(@, t)] ELSE tree IN
         IF t = NL \/ t = Comment THEN ParseFrom(text, i + 1, stack, tree)
         ELSE IF t = XmlDecl
         THEN IF i = 1 THEN ParseFrom(text, i + 1, stack, tree) ELSE NoTree
         ELSE IF OpenName(t) # ""
         THEN IF stack = <<>>
              THEN IF tree.root # "" THEN NoTree
                   ELSE ParseFrom(text, i + 1, <<OpenName(t)>>,
                                  [tree EXCEPT !.root = OpenName(t)])
              ELSE ParseFrom(text, i + 1, Append(stack, OpenName(t)), child)
         ELSE IF EmptyName(t) # ""
         THEN IF stack = <<>>
              THEN IF tree.root # "" THEN NoTree
                   ELSE ParseFrom(text, i + 1, stack, [tree EXCEPT !.root = EmptyName(t)])
              ELSE ParseFrom(text, i + 1, stack, child)
         ELSE IF CloseName(t) # ""
         THEN IF stack # <<>> /\ stack[Len(stack)] = CloseName(t)
              THEN ParseFrom(text, i + 1, SubSeq(stack, 1, Len(stack) - 1), tree)
              ELSE NoTree
         ELSE NoTree

\* ET.parse(config_path): ok is FALSE where ET raises ParseError.
ETparse(text) == ParseFrom(text, 1, <<>>, NoTree)

\* root.find('startup/[@useLegacyV2RuntimeActivationPolicy]'): the first
\* child of the root that is a startup element with the attribute; "" for
\* None.
RECURSIVE FindFrom(_, _)
FindFrom(children, i) ==
    IF i > Len(children) THEN ""
    ELSE IF OpenName(children[i]) = "startup" /\ PolicyAttrib(children[i]) # ""
         THEN children[i]
         ELSE FindFrom(children, i + 1)
find(tree) == FindFrom(tree.children, 1)

\* fp.readlines(): the lines of the text, each with its line end.
RECURSIVE readlines(_)
readlines(text) ==
    LET i == IndexFrom(text, NL, 1) IN
    IF text = <<>> THEN <<>>
    ELSE IF i = 0 THEN <<text>>
    ELSE <<SubSeq(text, 1, i)>> \o readlines(SubSeq(text, i + 1, Len(text)))

\* fp.writelines(lines): the lines one after the other.
RECURSIVE writelines(_)
writelines(lines) ==
    IF lines = <<>> THEN <<>> ELSE Head(lines) \o writelines(Tail(lines))

\* lines.insert(-1, item): before the last line; into an empty list at 0.
insert_before_last(lines, item) ==
    IF lines = <<>> THEN <<item>>
    ELSE SubSeq(lines, 1, Len(lines) - 1) \o <<item>> \o <<lines[Len(lines)]>>

\* LoadLibrary.check_dot_net_config(py_exe_path): the status, the message
\* and the config file it leaves.
check_dot_net_config(config) ==
    IF config.exists
    THEN LET lines == readlines(config.text)
             tree == ETparse(config.text)
             policy == find(tree) IN
         IF ~tree.ok
         THEN [status |-> -1, msg |-> "Invalid XML file", config |-> config]
         ELSE IF tree.root # "configuration"
         THEN [status |-> -1, msg |-> "The root tag must be configuration",
               config |-> config]
         ELSE IF policy = ""
         THEN [status |-> 1,
               msg |-> "Added the property. Try again",
               config |-> ConfigOf(writelines(insert_before_last(lines, NET_FRAMEWORK_FIX)))]
         ELSE IF lower(PolicyAttrib(policy)) # "true"
         THEN [status |-> -1, msg |-> "The useLegacyV2RuntimeActivationPolicy is False",
               config |-> config]
         ELSE [status |-> 0,
               msg |-> "The useLegacyV2RuntimeActivationPolicy property is enabled",
               config |-> config]
    ELSE [status |-> 1,
          msg |-> "Added the property to fix the error. Try again",
          config |-> ConfigOf(<<XmlDecl>> \o NET_FRAMEWORK_DESCRIPTION
                              \o <<"<configuration>">> \o NET_FRAMEWORK_FIX
                              \o <<"</configuration>", NL>>)]

\* A variant of ResolvedPath: the absolute path, no extension appended.
AbsOnly(path, env) == abspath(path)

\* LoadLibrary.__init__: the resolved path, then the load by libtype.
\* env says which files exist, which of them the loader of this interpreter
\* can open, whether pythonnet is installed and how the .NET load ends.
ResolvedPath(path, env) ==
    abspath(IF splitext_ext(path) = ""
            THEN <<path[1], path[2], DefaultExtension(env.platform)>>
            ELSE path)

\* What a call of the constructor ends with: the exception or the object,
\* the loads it attempted, the calls of check_dot_net_config it made with
\* the status each returned, and the config file it leaves.
Loaded(obj, loads, env) ==
    [ok |-> TRUE, kind |-> "", msg |-> "", obj |-> obj, loads |-> loads,
     checks |-> 0, statuses |-> <<>>, config |-> env.config]
Raised(kind, msg, loads, env) ==
    [ok |-> FALSE, kind |-> kind, msg |-> msg, obj |-> NoLibrary, loads |-> loads,
     checks |-> 0, statuses |-> <<>>, config |-> env.config]

\* 'Invalid library type: {}'.format(libtype)
InvalidLibraryType(libtype) ==
    CASE libtype = "net" -> "Invalid library type: net"
      [] libtype = "java" -> "Invalid library type: java"
      [] OTHER -> "Invalid library type: ?"

\* ctypes.CDLL(path), ctypes.WinDLL(path), ctypes.OleDLL(path); ctypes has
\* the last two on Windows only.
ctypesLoad(p, libtype, env) ==
    IF libtype # "cdll" /\ env.platform # "windows"
    THEN Raised("AttributeError", "module 'ctypes' has no attribute", <<>>, env)
    ELSE IF p \in env.loadable
    THEN Loaded([loaded |-> TRUE, path |-> p, lib |-> libtype, net |-> ""],
                <<libtype>>, env)
    ELSE Raised("OSError", "not a valid image", <<libtype>>, env)

\* A variant of MixedMode: after the check the assembly is loaded once more
\* and the error says only that it cannot be loaded.
MixedModeRetry(env) ==
    LET c == check_dot_net_config(env.config) IN
    [Raised("IOError",
            "Checking .NET config returned enabled and still cannot load library",
            <<"LoadFile", "LoadFile">>, env)
       EXCEPT !.checks = 1, !.statuses = <<c.status>>, !.config = c.config]

\* The 'Mixed mode assembly' branch: one call of check_dot_net_config, then
\* IOError in both branches.
MixedMode(env) ==
    LET c == check_dot_net_config(env.config) IN
    [Raised("IOError",
            IF c.status # 0 THEN c.msg
            ELSE "Checking .NET config returned enabled and still cannot load library",
            <<"LoadFile">>, env)
       EXCEPT !.checks = 1, !.statuses = <<c.status>>, !.config = c.config]

\* clr.System.Reflection.Assembly.LoadFile(path) and what follows it.
netLoad(p, env) ==
    CASE env.netload = "ok" ->
           Loaded([loaded |-> TRUE, path |-> p, lib |-> "module", net |-> "assembly"],
                  <<"LoadFile">>, env)
      [] env.netload = "mixed" -> MixedMode(env)
      [] env.netload = "fileload" ->
           Raised("IOError", "FileLoadException is not handled", <<"LoadFile">>, env)
      [] OTHER ->
           Raised("BadImageFormatException", "not a valid assembly", <<"LoadFile">>, env)

\* A variant of LoadLibrary: libtype is looked at before the file is.
LoadLibraryKindFirst(path, libtype, env) ==
    LET p == ResolvedPath(path, env) IN
    IF libtype \in {"cdll", "windll", "oledll"}
    THEN IF p \notin env.files
         THEN Raised("IOError", "Cannot find the shared library", <<>>, env)
         ELSE ctypesLoad(p, libtype, env)
    ELSE IF libtype = "net" /\ env.pythonnet
    THEN netLoad(p, env)
    ELSE Raised("TypeError", InvalidLibraryType(libtype), <<>>, env)

LoadLibrary(path, libtype, env) ==
    LET p == ResolvedPath(path, env) IN
    IF p \notin env.files
    THEN Raised("IOError", "Cannot find the shared library", <<>>, env)
    ELSE IF libtype \in {"cdll", "windll", "oledll"}
    THEN ctypesLoad(p, libtype, env)
    ELSE IF libtype = "net" /\ env.pythonnet
    THEN netLoad(p, env)
    ELSE Raised("TypeError", InvalidLibraryType(libtype), <<>>, env)

\* The files of the machine the server is started on.
LibFiles == {<<"/cwd/", "cpp_lib32", ".so">>, <<"/opt/", "fortran_lib32", ".so">>,
             <<"/cwd/", "cpp_lib64", ".so">>}
Environment == [platform |-> "linux", files |-> LibFiles,
                loadable |-> LibFiles \ {<<"/cwd/", "cpp_lib64", ".so">>},
                pythonnet |-> FALSE, netload |-> "ok", config |-> NoConfig]

\* The ways the server is started: Server32(path, libtype, host, port, quiet).
Launches ==
    { [path |-> p, libtype |-> t, env |-> Environment] :
        p \in {<<"", "cpp_lib32", "">>, <<"/opt/", "fortran_lib32", ".so">>,
               <<"", "missing", "">>},
        t \in {"cdll"} }
    \cup {[path |-> <<"", "cpp_lib32", "">>, libtype |-> "net", env |-> Environment],
          [path |-> <<"", "cpp_lib64", "">>, libtype |-> "cdll", env |-> Environment]}

\* ------------------------------------------------------- the request line
\* A request line is a sequence of tokens; ":" is the separator.  A method
\* name, a file name and a digit are one token each.

SHUTDOWN_SERVER == <<"SHUTDOWN_SERVER">>
LIB32_PATH == <<"LIB32_PATH">>

\* A variant of split: str.split(sep), which splits at every separator.
RECURSIVE split_every(_, _, _)
split_every(s, sep, maxsplit) ==
    LET i == IndexFrom(s, sep, 1) IN
    IF i = 0 THEN <<s>>
    ELSE <<SubSeq(s, 1, i - 1)>> \o split_every(SubSeq(s, i + 1, Len(s)), sep, maxsplit)

\* str.split(sep, maxsplit)
RECURSIVE split(_, _, _)
split(s, sep, maxsplit) ==
    LET i == IndexFrom(s, sep, 1) IN
    IF maxsplit = 0 \/ i = 0 THEN <<s>>
    ELSE <<SubSeq(s, 1, i - 1)>> \o split(SubSeq(s, i + 1, Len(s)), sep, maxsplit - 1)

\* '/' + request, the path of the GET line, and self.path[1:]
RequestPath(request) == <<"/">> \o request
StripSlash(path) == Tail(path)

\* int(text): an optional sign and at least one decimal digit.
Digit(c) ==
    CASE c = "0" -> 0 [] c = "1" -> 1 [] c = "2" -> 2 [] c = "3" -> 3 [] c = "4" -> 4
      [] c = "5" -> 5 [] c = "6" -> 6 [] c = "7" -> 7 [] c = "8" -> 8 [] c = "9" -> 9
      [] OTHER -> -1

Unsigned(s) == IF Len(s) > 0 /\ s[1] = "-" THEN Tail(s) ELSE s

IsInt(s) == /\ Len(Unsigned(s)) > 0
            /\ \A i \in 1..Len(Unsigned(s)) : Digit(Unsigned(s)[i]) >= 0

RECURSIVE Decimal(_)
Decimal(s) == IF s = <<>> THEN 0
              ELSE 10 * Decimal(SubSeq(s, 1, Len(s) - 1)) + Digit(s[Len(s)])

int(s) == IF Len(s) > 0 /\ s[1] = "-" THEN 0 - Decimal(Tail(s)) ELSE Decimal(s)

\* ------------------------------------------------------------- Python values
\* A value is [t, a, k]: its type, its items in order, its named items.

None == [t |-> "none", a |-> <<>>, k |-> {}]
Tuple(items) == [t |-> "tuple", a |-> items, k |-> {}]
Dict(named) == [t |-> "dict", a |-> <<>>, k |-> named]
ArgsKwargs(items, named) == [t |-> "pair", a |-> items, k |-> named]
Str(tokens) == [t |-> "str", a |-> tokens, k |-> {}]
CtypesPointer == [t |-> "ctypes", a |-> <<>>, k |-> {}]

\* pickle: the highest protocol of the interpreter; a negative protocol
\* selects it.  A ctypes object holding a pointer cannot be pickled.
HIGHEST_PROTOCOL == 4
ProtocolOK(n) == n <= HIGHEST_PROTOCOL
Picklable(v) == v.t # "ctypes"
Pickled(v, n) == [protocol |-> IF n < 0 THEN HIGHEST_PROTOCOL ELSE n, obj |-> v]

\* ---------------------------------------------------------- exchange files
\* A file is absent, or holds a sequence of pickled objects, or holds bytes
\* that are no pickle (junk).

Absent == [state |-> "absent", data |-> <<>>, junk |-> FALSE]
Empty == [state |-> "file", data |-> <<>>, junk |-> FALSE]
Junk == [state |-> "file", data |-> <<>>, junk |-> TRUE]
FileOf(objs) == [state |-> "file", data |-> objs, junk |-> FALSE]

\* The exchange paths a client may name; NoDir names a directory that does
\* not exist, so that a file there can be neither read nor created.
ExchangeFiles == {<<"f1">>, <<"C", ":", "f2">>}
NoDir == <<"nodir", "f3">>
CanOpen(file, mode, files) ==
    /\ file \in ExchangeFiles
    /\ (mode = "rb" => files[file].state = "file")

\* ------------------------------------------ the methods of the server object
\* A traceback entry, as traceback.extract_tb gives it.
Frame(file, line, func) == [file |-> file, line |-> line, func |-> func]

\* The frame of RequestHandler.do_GET at the given line of server32.py.
DispatchFrame(line) == Frame("server32.py", line, "do_GET")

\* The methods a Server32 subclass adds (the example and test servers):
\* send_data returns what it received, get_handle returns a ctypes pointer,
\* fail raises in its own body, deep_fail raises in a helper it calls.
UserMethods == {"send_data", "get_handle", "fail", "deep_fail"}

\* The exception a failing method raises: the kind and message its caller
\* asked for, or its own default.
Failure(items) ==
    IF Len(items) >= 2 THEN [kind |-> items[1], msg |-> items[2]]
    ELSE [kind |-> "RuntimeError", msg |-> "failed"]

CallUserMethod(name, items, named) ==
    CASE name = "send_data" ->
           [ok |-> TRUE, value |-> ArgsKwargs(items, named), kind |-> "", msg |-> "",
            frames |-> <<>>]
      [] name = "get_handle" ->
           [ok |-> TRUE, value |-> CtypesPointer, kind |-> "", msg |-> "",
            frames |-> <<>>]
      [] name = "fail" ->
           [ok |-> FALSE, value |-> None, kind |-> Failure(items).kind,
            msg |-> Failure(items).msg, frames |-> <<Frame("user.py", 10, "fail")>>]
      [] OTHER ->
           [ok |-> FALSE, value |-> None, kind |-> Failure(items).kind,
            msg |-> Failure(items).msg,
            frames |-> <<Frame("user.py", 20, "deep_fail"),
                         Frame("user.py", 30, "helper")>>]

\* A variant of Attribute: a name the server does not have is looked up as
\* a method of the subclass.
AttributeAny(method) ==
    IF Len(method) # 1 THEN "missing"
    ELSE IF method[1] = "shutdown" THEN "shutdown"
    ELSE IF method[1] \in {"path", "lib", "net", "quiet"} THEN "property"
    ELSE "user"

\* getattr(self.server, method): a method of the subclass, the shutdown
\* method inherited from HTTPServer, a property of Server32 (a value, not a
\* callable), or no attribute at all.
Properties == {"path", "lib", "net", "quiet"}
Attribute(method) ==
    IF Len(method) # 1 THEN "missing"
    ELSE IF method[1] \in UserMethods THEN "user"
    ELSE IF method[1] = "shutdown" THEN "shutdown"
    ELSE IF method[1] \in Properties THEN "property"
    ELSE "missing"

\* ------------------------------------------------------------- the client
\* What the client pickles into the exchange file before a request: no
\* arguments; positional and keyword arguments; one positional argument;
\* keyword arguments only; nested containers (a container is written as
\* its items between bracket tokens, in the order pickle writes them).
Payloads == { [args |-> <<>>, kwargs |-> {}],
              [args |-> <<"IOError", "boom">>, kwargs |-> {<<"x", "1">>}],
              [args |-> <<"True">>, kwargs |-> {}],
              [args |-> <<>>, kwargs |-> {<<"x", "1.0">>}],
              [args |-> <<"111", "(", "1", "2", ")">>,
               kwargs |-> {<<"x", "[", "0", "1", "]">>,
                           <<"my_dict", "{", "text", "abcd", "}">>}] }

ClientProtocol == 2
RequestFile(p) == FileOf(<<Pickled(Tuple(p.args), ClientProtocol),
                           Pickled(Dict(p.kwargs), ClientProtocol)>>)

MethodNames == {"LIB32_PATH", "send_data", "get_handle", "fail", "deep_fail",
                "nosuch", "shutdown", "path"}

\* '<method>:<protocol>:<file>'
RequestLine(m, v, f) == <<m, ":">> \o v \o <<":">> \o f

\* The request lines the client sends: every method name with protocol 2
\* and file f1; a protocol that is no integer, and one pickle does not
\* have; a file name holding a colon; a file that cannot be opened; a line
\* with two fields; the sentinel.
Requests ==
    { RequestLine(m, <<"2">>, <<"f1">>) : m \in MethodNames }
    \cup { RequestLine(m, <<"x">>, <<"f1">>) : m \in {"LIB32_PATH", "send_data"} }
    \cup { RequestLine(m, <<"2">>, <<"C", ":", "f2">>) : m \in {"LIB32_PATH", "send_data"} }
    \cup { RequestLine(m, <<"2">>, NoDir) : m \in {"LIB32_PATH", "send_data"} }
    \cup {SHUTDOWN_SERVER, <<"send_data", ":", "2">>,
          RequestLine("send_data", <<"9">>, <<"f1">>)}

\* --------------------------------------------------------- the do_GET frame
NoBody == [file |-> "", line |-> 0, func |-> "", kind |-> "", msg |-> ""]

NewFrame(request, files, previous) ==
    [request |-> request, method |-> <<>>, protocol |-> <<>>, file |-> <<>>,
     args |-> <<>>, kwargs |-> {}, response |-> None,
     exc |-> NoException, statuses |-> <<>>, body |-> NoBody,
     calls |-> <<>>, reads |-> <<>>, writes |-> <<>>, threads |-> 0,
     entry |-> files, previous |-> previous]

\* The frame when no request is being handled; it keeps the statuses the
\* last request was answered with.
NoFiles == [f \in ExchangeFiles |-> Absent]
IdleFrame(previous) == NewFrame(<<>>, NoFiles, previous)

HandlerPcs == {"do_GET", "read", "invoke", "open_wb", "dump", "send_200",
               "except", "return", "in_shutdown"}

\* An exception raised while do_GET is at the given line; frames are the
\* frames below do_GET, outermost first.
Raise(frame, kind, msg, line, frames) ==
    [frame EXCEPT !.exc = [kind |-> kind, msg |-> msg,
                           tb |-> <<DispatchFrame(line)>> \o frames]]

\* --------------------------------------------------------------- start-up

Init ==
    /\ pc = "new"
    /\ socket = "none"
    /\ launch \in Launches
    /\ library = NoLibrary
    /\ raised = NoException
    /\ shutdown_request = FALSE
    /\ is_shut_down = FALSE
    /\ workers = <<>>
    /\ pending = <<>>
    /\ fs = NoFiles
    /\ h = IdleFrame(<<>>)
    /\ sent = 0
    /\ clientDone = FALSE

\* Server32.__init__, first statement: HTTPServer.__init__ creates the
\* socket, binds it to (host, port) and puts it in the listening state.
HTTPServerInit ==
    /\ pc = "new"
    /\ socket' = "listening"
    /\ pc' = "load"
    /\ UNCHANGED <<launch, library, raised, shutdown_request, is_shut_down, workers,
                   pending, fs, h, sent, clientDone>>

\* Server32.__init__, last statement: self._library = LoadLibrary(path, libtype).
\* An exception of LoadLibrary leaves the constructor.
LoadTheLibrary ==
    /\ pc = "load"
    /\ LET r == LoadLibrary(launch.path, launch.libtype, launch.env) IN
         IF r.ok
         THEN /\ library' = r.obj
              /\ raised' = raised
              /\ pc' = "constructed"
         ELSE /\ library' = library
              /\ raised' = [kind |-> r.kind, msg |-> r.msg, tb |-> <<>>]
              /\ pc' = "raised"
    /\ UNCHANGED <<socket, launch, shutdown_request, is_shut_down, workers,
                   pending, fs, h, sent, clientDone>>

\* A variant of ServerPath: the path as it was given to the constructor.
GivenPath == launch.path

\* Server32.path: the path of the LoadLibrary object.
ServerPath == library.path

\* ------------------------------------------------ HTTPServer.serve_forever

\* The launcher calls serve_forever on the constructed server.
ServeForever ==
    /\ pc = "constructed"
    /\ is_shut_down' = FALSE
    /\ pc' = "loop"
    /\ UNCHANGED <<socket, launch, library, raised, shutdown_request, workers,
                   pending, fs, h, sent, clientDone>>

\* while not self.__shutdown_request: ... ; afterwards the flag is reset and
\* the event is set.
LoopTest ==
    /\ pc = "loop"
    /\ IF shutdown_request
       THEN /\ shutdown_request' = FALSE
            /\ is_shut_down' = TRUE
            /\ pc' = "exited"
       ELSE /\ pc' = "select"
            /\ UNCHANGED <<shutdown_request, is_shut_down>>
    /\ UNCHANGED <<socket, launch, library, raised, workers, pending, fs, h, sent,
                   clientDone>>

\* select(poll_interval) returns with no connection ready.
SelectTimeout ==
    /\ pc = "select"
    /\ pending = <<>>
    /\ pc' = "loop"
    /\ UNCHANGED <<socket, launch, library, raised, shutdown_request, is_shut_down,
                   workers, pending, fs, h, sent, clientDone>>

\* A variant of Accept: a ready connection is taken up also while do_GET is
\* running for an earlier one.
AcceptAnytime ==
    /\ pc \in {"select"} \cup HandlerPcs
    /\ pending # <<>>
    /\ h' = NewFrame(StripSlash(Head(pending)), fs, h.previous)
    /\ pending' = Tail(pending)
    /\ pc' = "do_GET"
    /\ UNCHANGED <<socket, launch, library, raised, shutdown_request, is_shut_down,
                   workers, fs, sent, clientDone>>

\* select returns a ready connection: the request is read and do_GET is
\* called on the thread of the loop.
Accept ==
    /\ pc = "select"
    /\ pending # <<>>
    /\ h' = NewFrame(StripSlash(Head(pending)), fs, h.previous)
    /\ pending' = Tail(pending)
    /\ pc' = "do_GET"
    /\ UNCHANGED <<socket, launch, library, raised, shutdown_request, is_shut_down,
                   workers, fs, sent, clientDone>>

\* The worker thread runs HTTPServer.shutdown: it sets the flag ...
WorkerSetsFlag(i) ==
    /\ workers[i] = "started"
    /\ shutdown_request' = TRUE
    /\ workers' = [workers EXCEPT ![i] = "waiting"]
    /\ UNCHANGED <<pc, socket, launch, library, raised, is_shut_down, pending, fs, h,
                   sent, clientDone>>

\* ... and waits for the event the loop sets when it exits.
WorkerReturns(i) ==
    /\ workers[i] = "waiting"
    /\ is_shut_down
    /\ workers' = [workers EXCEPT ![i] = "done"]
    /\ UNCHANGED <<pc, socket, launch, library, raised, shutdown_request, is_shut_down,
                   pending, fs, h, sent, clientDone>>

\* The client: one request at a time, the arguments pickled into the
\* exchange file first (or bytes that are no pickle, or nothing at all);
\* after its shutdown request it sends nothing more.
Busy == pending # <<>> \/ pc \in HandlerPcs

Writes == { [mode |-> "payload", p |-> x] : x \in Payloads }
          \cup { [mode |-> m, p |-> [args |-> <<>>, kwargs |-> {}]] : m \in {"junk", "keep"} }

ClientWrites(request, write) ==
    LET parts == split(request, ":", 2) IN
    IF Len(parts) = 3 /\ parts[3] \in ExchangeFiles /\ write.mode # "keep"
    THEN [fs EXCEPT ![parts[3]] =
              IF write.mode = "junk" THEN Junk ELSE RequestFile(write.p)]
    ELSE fs

ClientSend(request, write) ==
    /\ socket = "listening"
    /\ pc \notin {"raised", "exited"}
    /\ ~Busy
    /\ ~clientDone
    /\ sent < MaxRequests
    /\ fs' = ClientWrites(request, write)
    /\ pending' = Append(pending, RequestPath(request))
    /\ sent' = sent + 1
    /\ clientDone' = (request = SHUTDOWN_SERVER)
    /\ UNCHANGED <<pc, socket, launch, library, raised, shutdown_request, is_shut_down,
                   workers, h>>

\* ------------------------------------------------ RequestHandler.do_GET
OK == 200
NOT_IMPLEMENTED == 501

\* A variant of ShutdownBranch: self.server.shutdown() called in do_GET
\* itself instead of on a new thread.
ShutdownInline ==
    /\ workers' = workers
    /\ h' = [h EXCEPT !.calls = Append(@, "shutdown")]
    /\ shutdown_request' = TRUE
    /\ pc' = "in_shutdown"

\* if request == 'SHUTDOWN_SERVER': a thread is started to run
\* self.server.shutdown, and do_GET returns.
ShutdownBranch ==
    /\ workers' = Append(workers, "started")
    /\ h' = [h EXCEPT !.threads = @ + 1]
    /\ pc' = "return"
    /\ UNCHANGED shutdown_request

\* method, pickle_protocol, pickle_temp_file = request.split(':', 2), and
\* the LIB32_PATH branch.
DispatchBranch ==
    LET parts == split(h.request, ":", 2) IN
    /\ IF Len(parts) # 3
       THEN /\ h' = Raise(h, "ValueError", "not enough values to unpack", 165, <<>>)
            /\ pc' = "except"
       ELSE IF parts[1] = LIB32_PATH
       THEN /\ h' = [h EXCEPT !.method = parts[1], !.protocol = parts[2],
                              !.file = parts[3], !.response = Str(ServerPath)]
            /\ pc' = "open_wb"
       ELSE /\ h' = [h EXCEPT !.method = parts[1], !.protocol = parts[2],
                              !.file = parts[3]]
            /\ pc' = "read"
    /\ UNCHANGED <<workers, shutdown_request>>

DoGET ==
    /\ pc = "do_GET"
    /\ IF h.request = SHUTDOWN_SERVER THEN ShutdownBranch ELSE DispatchBranch
    /\ UNCHANGED <<socket, launch, library, raised, is_shut_down, pending, fs, sent,
                   clientDone>>

\* A variant of LoadedArguments: the second object of the file is not read.
LoadedArgsOnly(f) == [args |-> f.data[1].obj.a, kwargs |-> {}]

\* args = pickle.load(f); kwargs = pickle.load(f): the first and the second
\* object of the file.
LoadedArguments(f) == [args |-> f.data[1].obj.a, kwargs |-> f.data[2].obj.k]

\* with open(pickle_temp_file, 'rb') as f: args = pickle.load(f);
\* kwargs = pickle.load(f)
ReadArguments ==
    /\ pc = "read"
    /\ IF ~CanOpen(h.file, "rb", fs)
       THEN /\ h' = Raise(h, "IOError", "No such file or directory", 169, <<>>)
            /\ pc' = "except"
       ELSE LET f == fs[h.file]
                opened == [h EXCEPT !.reads = Append(@, h.file)] IN
            IF f.junk
            THEN /\ h' = Raise(opened, "UnpicklingError", "invalid load key", 170, <<>>)
                 /\ pc' = "except"
            ELSE IF Len(f.data) = 0
            THEN /\ h' = Raise(opened, "EOFError", "Ran out of input", 170, <<>>)
                 /\ pc' = "except"
            ELSE IF Len(f.data) = 1
            THEN /\ h' = Raise(opened, "EOFError", "Ran out of input", 171, <<>>)
                 /\ pc' = "except"
            ELSE /\ h' = [opened EXCEPT !.args = LoadedArguments(f).args,
                                        !.kwargs = LoadedArguments(f).kwargs]
                 /\ pc' = "invoke"
    /\ UNCHANGED <<socket, launch, library, raised, shutdown_request, is_shut_down,
                   workers, pending, fs, sent, clientDone>>

\* response = getattr(self.server, method)(*args, **kwargs)
Invoke ==
    /\ pc = "invoke"
    /\ LET attr == Attribute(h.method) IN
       CASE attr = "missing" ->
              /\ h' = Raise(h, "AttributeError", "object has no attribute", 172, <<>>)
              /\ pc' = "except"
              /\ UNCHANGED shutdown_request
         [] attr = "property" ->
              /\ h' = Raise(h, "TypeError", "object is not callable", 172, <<>>)
              /\ pc' = "except"
              /\ UNCHANGED shutdown_request
         [] attr = "shutdown" ->
              IF h.args # <<>> \/ h.kwargs # {}
              THEN /\ h' = Raise(h, "TypeError", "shutdown() takes 1 positional argument",
                                 172, <<>>)
                   /\ pc' = "except"
                   /\ UNCHANGED shutdown_request
              ELSE \* HTTPServer.shutdown on the thread of the loop: it sets
                   \* the flag and waits for the event only the loop sets
                   /\ h' = [h EXCEPT !.calls = Append(@, "shutdown")]
                   /\ shutdown_request' = TRUE
                   /\ pc' = "in_shutdown"
         [] OTHER ->
              LET r == CallUserMethod(h.method[1], h.args, h.kwargs)
                  called == [h EXCEPT !.calls = Append(@, h.method[1])] IN
              /\ IF r.ok
                 THEN /\ h' = [called EXCEPT !.response = r.value]
                      /\ pc' = "open_wb"
                 ELSE /\ h' = Raise(called, r.kind, r.msg, 172, r.frames)
                      /\ pc' = "except"
              /\ UNCHANGED shutdown_request
    /\ UNCHANGED <<socket, launch, library, raised, is_shut_down, workers, pending, fs,
                   sent, clientDone>>

\* A variant of WriteTarget: one fixed exchange file for every request.
FixedTarget == IF h.file \in ExchangeFiles THEN <<"f1">> ELSE h.file

\* with open(pickle_temp_file, 'wb') as f: the file the result goes to.
WriteTarget == h.file

OpenForWriting ==
    /\ pc = "open_wb"
    /\ IF ~CanOpen(WriteTarget, "wb", fs)
       THEN /\ h' = Raise(h, "IOError", "No such file or directory", 174, <<>>)
            /\ pc' = "except"
            /\ fs' = fs
       ELSE /\ h' = [h EXCEPT !.writes = Append(@, WriteTarget)]
            /\ fs' = [fs EXCEPT ![WriteTarget] = Empty]
            /\ pc' = "dump"
    /\ UNCHANGED <<socket, launch, library, raised, shutdown_request, is_shut_down,
                   workers, pending, sent, clientDone>>

\* pickle.dump(response, f, protocol=int(pickle_protocol)), and the close of
\* the file at the end of the with block.
Dump ==
    /\ pc = "dump"
    /\ LET target == h.writes[Len(h.writes)] IN
       IF ~IsInt(h.protocol)
       THEN /\ h' = Raise(h, "ValueError", "invalid literal for int()", 175, <<>>)
            /\ pc' = "except"
            /\ fs' = fs
       ELSE IF ~ProtocolOK(int(h.protocol))
       THEN /\ h' = Raise(h, "ValueError", "pickle protocol must be <= HIGHEST", 175, <<>>)
            /\ pc' = "except"
            /\ fs' = fs
       ELSE IF ~Picklable(h.response)
       THEN /\ h' = Raise(h, "ValueError", "ctypes objects containing pointers cannot be pickled",
                          175, <<>>)
            /\ pc' = "except"
            /\ \E partial \in {Empty, Junk} : fs' = [fs EXCEPT ![target] = partial]
       ELSE /\ h' = h
            /\ fs' = [fs EXCEPT ![target] = FileOf(<<Pickled(h.response, int(h.protocol))>>)]
            /\ pc' = "send_200"
    /\ UNCHANGED <<socket, launch, library, raised, shutdown_request, is_shut_down,
                   workers, pending, sent, clientDone>>

\* self.send_response(200); self.end_headers()
Send200 ==
    /\ pc = "send_200"
    /\ h' = [h EXCEPT !.statuses = Append(@, OK)]
    /\ pc' = "return"
    /\ UNCHANGED <<socket, launch, library, raised, shutdown_request, is_shut_down,
                   workers, pending, fs, sent, clientDone>>

\* Variants of ReportedFrame: the innermost entry, and the outermost one.
InnermostFrame(tb_list) == tb_list[Len(tb_list)]
OutermostFrame(tb_list) == tb_list[1]

\* tb = tb_list[min(len(tb_list)-1, 1)]: the entry of the traceback the
\* error message names (tb_list counts from 0, a sequence from 1).
ReportedFrame(tb_list) == tb_list[Min(Len(tb_list) - 1, 1) + 1]

\* The text written to the response: the file, line and function of the
\* reported frame, the name of the exception type and its message.
ErrorMessage(exc) ==
    LET tb == ReportedFrame(exc.tb) IN
    [file |-> tb.file, line |-> tb.line, func |-> tb.func,
     kind |-> exc.kind, msg |-> exc.msg]

\* The error message as a value that can be pickled.
ErrorRecord(body) ==
    [t |-> "error", a |-> <<body.file, body.func, body.kind, body.msg>>, k |-> {}]

\* A variant of FilesAfterExcept: the error is pickled into the exchange file.
FilesWithErrorRecord ==
    IF h.file \in ExchangeFiles
    THEN [fs EXCEPT ![h.file] =
              FileOf(<<Pickled(ErrorRecord(ErrorMessage(h.exc)), HIGHEST_PROTOCOL)>>)]
    ELSE fs

\* What the except block leaves in the exchange files: it opens none.
FilesAfterExcept == fs

\* A variant of Except: the failure closes the server instead of being
\* turned into a response.
ExceptClosesServer ==
    /\ pc = "except"
    /\ h' = h
    /\ fs' = fs
    /\ socket' = "closed"
    /\ pc' = "exited"
    /\ UNCHANGED <<launch, library, raised, shutdown_request, is_shut_down,
                   workers, pending, sent, clientDone>>

\* except Exception: send_response(501), the text/plain header, the message.
Except ==
    /\ pc = "except"
    /\ h' = [h EXCEPT !.statuses = Append(@, NOT_IMPLEMENTED),
                      !.body = ErrorMessage(h.exc)]
    /\ fs' = FilesAfterExcept
    /\ pc' = "return"
    /\ UNCHANGED <<socket, launch, library, raised, shutdown_request, is_shut_down,
                   workers, pending, sent, clientDone>>

\* do_GET returns: the response is flushed, the connection is closed and
\* the loop goes on.
Return ==
    /\ pc = "return"
    /\ h' = IdleFrame(h.statuses)
    /\ pc' = "loop"
    /\ UNCHANGED <<socket, launch, library, raised, shutdown_request, is_shut_down,
                   workers, pending, fs, sent, clientDone>>

\* ------------------------------------------------------- the specification

MainThread ==
    \/ HTTPServerInit
    \/ LoadTheLibrary
    \/ ServeForever
    \/ LoopTest
    \/ SelectTimeout
    \/ Accept
    \/ DoGET
    \/ ReadArguments
    \/ Invoke
    \/ OpenForWriting
    \/ Dump
    \/ Send200
    \/ Except
    \/ Return

WorkerThread ==
    \E i \in 1..Len(workers) : WorkerSetsFlag(i) \/ WorkerReturns(i)

Client ==
    \E request \in Requests, write \in Writes : ClientSend(request, write)

Next == MainThread \/ WorkerThread \/ Client

Spec == Init /\ [][Next]_vars

\* Threads that can run do run: the interpreter schedules every thread.
FairSpec == Spec /\ WF_vars(MainThread) /\ WF_vars(WorkerThread)

\* -------------------------------------------- requests that have to wait
\* A second connection to the same server: its request arrives while do_GET
\* is running for the first client and waits in the listen queue of the
\* socket.  The sender has pickled its arguments into its own file.
AheadRequests == { RequestLine(m, <<"2">>, <<"C", ":", "f2">>) :
                     m \in {"send_data", "LIB32_PATH"} }
AheadWrites == { [mode |-> "payload", p |-> [args |-> <<"True">>, kwargs |-> {}]],
                 [mode |-> "keep", p |-> [args |-> <<>>, kwargs |-> {}]] }

ClientSendsAhead(request, write) ==
    /\ socket = "listening"
    /\ pc \in HandlerPcs
    /\ Len(pending) < MaxPending
    /\ sent < MaxRequests
    /\ fs' = ClientWrites(request, write)
    /\ pending' = Append(pending, RequestPath(request))
    /\ sent' = sent + 1
    /\ UNCHANGED <<pc, socket, launch, library, raised, shutdown_request, is_shut_down,
                   workers, h, clientDone>>

SecondClient ==
    \E request \in AheadRequests, write \in AheadWrites :
        ClientSendsAhead(request, write)

QueueNext == MainThread \/ WorkerThread \/ Client \/ SecondClient

QueueSpec == Init /\ [][QueueNext]_vars

\* ------------------------------------------------- LoadLibrary on its own
\* A caller constructs LoadLibrary(path, libtype) on some machine, reads the
\* properties of the object it gets, or calls the constructor again after a
\* failure.

\* The files on the machine: a native library under each platform's
\* extension, an assembly, and a file without extension.
LoaderLibFiles ==
    { <<"/cwd/", "cpp_lib32", e>> : e \in {".dll", ".so", ".dylib"} }
    \cup {<<"/opt/", "dotnet", ".dll">>, <<"/cwd/", "plain", "">>}

\* The config files next to the Python executable.
ConfigFiles ==
    { NoConfig,
      ConfigOf(<<XmlDecl, NL, "<configuration>", NL, PolicyTrue, NL, SupportedRuntime, NL,
                 "</startup>", NL, "</configuration>", NL>>),
      ConfigOf(<<"<configuration>", NL, PolicyTrueCap, "</startup>", NL,
                 "</configuration>", NL>>),
      ConfigOf(<<"<configuration>", NL, PolicyFalse, "</startup>", NL,
                 "</configuration>", NL>>),
      ConfigOf(<<"<configuration>", NL, "</configuration>", NL>>),
      ConfigOf(<<"<configuration>", NL, "<startup>", SupportedRuntime, "</startup>", NL,
                 "</configuration>", NL>>),
      ConfigOf(<<"<configuration>", NL, "</configuration>">>),
      ConfigOf(<<"<configuration>", "</configuration>">>),
      ConfigOf(<<"<configuration>", NL, "</configuration>", NL, Comment, NL>>),
      ConfigOf(<<"<config>", NL, "</config>", NL>>),
      ConfigOf(<<"<configuration>", NL>>),
      ConfigOf(<<"<">>),
      ConfigOf(<<>>) }

LoaderEnv(platform, pythonnet, netload, config) ==
    [platform |-> platform, files |-> LoaderLibFiles,
     loadable |-> LoaderLibFiles \ {<<"/opt/", "dotnet", ".dll">>},
     pythonnet |-> pythonnet, netload |-> netload, config |-> config]

LoaderPaths == {<<"", "cpp_lib32", "">>, <<"", "cpp_lib32", ".dll">>,
                <<"/opt/", "dotnet", ".dll">>, <<"", "missing", "">>,
                <<"", "plain", "">>}

\* The calls LoadLibrary(path, libtype) and the machines they are made on.
LoaderLaunches ==
    { [path |-> p, libtype |-> t, env |-> LoaderEnv(o, FALSE, "ok", NoConfig)] :
        p \in LoaderPaths, t \in {"cdll", "windll", "oledll", "net", "java"},
        o \in {"windows", "linux", "mac", "sunos"} }
    \cup
    { [path |-> p, libtype |-> "net", env |-> LoaderEnv(o, TRUE, n, NoConfig)] :
        p \in LoaderPaths, o \in {"windows", "linux"},
        n \in {"ok", "fileload", "badimage"} }
    \cup
    { [path |-> p, libtype |-> "net", env |-> LoaderEnv("windows", TRUE, "mixed", c)] :
        p \in {<<"/opt/", "dotnet", ".dll">>, <<"", "missing", "">>},
        c \in ConfigFiles }

\* What is recorded of the constructor calls: how many were made, and of
\* the last one the config file it found, the loads it attempted and its
\* calls of check_dot_net_config; returned holds the statuses the checks of
\* all the calls returned, got what the property reads gave.
LoaderFrame == [constructs |-> 0, before |-> NoConfig, loads |-> <<>>, checks |-> 0,
                returned |-> <<>>, got |-> <<>>]

LoaderInit ==
    /\ pc = "new"
    /\ socket = "none"
    /\ launch \in LoaderLaunches
    /\ library = NoLibrary
    /\ raised = NoException
    /\ shutdown_request = FALSE
    /\ is_shut_down = FALSE
    /\ workers = <<>>
    /\ pending = <<>>
    /\ fs = launch.env.config
    /\ h = LoaderFrame
    /\ sent = 0
    /\ clientDone = FALSE

\* LoadLibrary.__init__(path, libtype) on the machine as it is now.
Construct ==
    /\ pc = "new"
    /\ LET r == LoadLibrary(launch.path, launch.libtype,
                            [launch.env EXCEPT !.config = fs]) IN
         /\ library' = r.obj
         /\ raised' = IF r.ok THEN NoException
                      ELSE [kind |-> r.kind, msg |-> r.msg, tb |-> <<>>]
         /\ fs' = r.config
         /\ h' = [h EXCEPT !.constructs = @ + 1, !.before = fs, !.loads = r.loads,
                           !.checks = r.checks, !.returned = @ \o r.statuses]
         /\ pc' = IF r.ok THEN "loaded" ELSE "failed"
    /\ UNCHANGED <<socket, launch, shutdown_request, is_shut_down, workers, pending,
                   sent, clientDone>>

\* The caller calls the constructor again with the same arguments.
TryAgain ==
    /\ pc = "failed"
    /\ h.constructs < MaxConstructs
    /\ pc' = "new"
    /\ UNCHANGED <<socket, launch, library, raised, shutdown_request, is_shut_down,
                   workers, pending, fs, h, sent, clientDone>>

\* A property read on the object: the value the caller gets.
Get(attr, value) ==
    /\ pc = "loaded"
    /\ Len(h.got) < MaxReads
    /\ h' = [h EXCEPT !.got = Append(@, [attr |-> attr, value |-> value])]
    /\ UNCHANGED <<pc, socket, launch, library, raised, shutdown_request, is_shut_down,
                   workers, pending, fs, sent, clientDone>>

\* LoadLibrary.path, LoadLibrary.lib, LoadLibrary.net
GetPath == Get("path", library.path)
GetLib == Get("lib", <<library.lib>>)
GetNet == Get("net", <<library.net>>)

LoaderNext == Construct \/ TryAgain \/ GetPath \/ GetLib \/ GetNet

LoaderSpec == LoaderInit /\ [][LoaderNext]_vars

\* ------------------------------------------------ several clients at once
\* Each client starts its own server on the same host and keeps a
\* ServerEndpoint for it.  Here pc, launch, socket and h are functions of
\* the client: its position, the port argument it gives its server
\* (0: the server selects), the port its server listens on (0: none), and
\* its ServerEndpoint.

Clients == 1..MaxClients
PortNumbers == {8000, 8001, 8002}
NoEndpoint == [alive |-> FALSE, port |-> 0]

\* A variant of CanBind: the port is given to every server that asks.
BindAlways(port, inuse) == TRUE

\* HTTPServer.__init__ binds (host, int(port)): the bind fails when another
\* socket listens on the port.
CanBind(port, inuse) == port \notin inuse

ListeningPorts == { socket[j] : j \in Clients } \ {0}

PortsInit ==
    /\ pc = [i \in Clients |-> "idle"]
    /\ socket = [i \in Clients |-> 0]
    /\ launch = [i \in Clients |-> 0]
    /\ library = NoLibrary
    /\ raised = NoException
    /\ shutdown_request = FALSE
    /\ is_shut_down = FALSE
    /\ workers = <<>>
    /\ pending = <<>>
    /\ fs = NoFiles
    /\ h = [i \in Clients |-> NoEndpoint]
    /\ sent = 0
    /\ clientDone = FALSE

\* connect(server_module_path, host, port?, timeout): the client starts the
\* server process, with a port it assigns or with none.
Spawn(i, port) ==
    /\ pc[i] \in {"idle", "closed", "failed"}
    /\ launch' = [launch EXCEPT ![i] = port]
    /\ pc' = [pc EXCEPT ![i] = "spawned"]
    /\ UNCHANGED <<socket, library, raised, shutdown_request, is_shut_down, workers,
                   pending, fs, h, sent, clientDone>>

\* Server32.__init__ of server i: HTTPServer.__init__ binds the port given,
\* or, given 0, a port the system selects among the free ones; when the
\* bind fails the exception ends the server process.
Bind(i) ==
    /\ pc[i] = "spawned"
    /\ LET free == { p \in PortNumbers : CanBind(p, ListeningPorts) } IN
       IF launch[i] = 0 /\ free # {}
       THEN \E p \in free :
                /\ socket' = [socket EXCEPT ![i] = p]
                /\ pc' = [pc EXCEPT ![i] = "listening"]
       ELSE IF launch[i] # 0 /\ CanBind(launch[i], ListeningPorts)
       THEN /\ socket' = [socket EXCEPT ![i] = launch[i]]
            /\ pc' = [pc EXCEPT ![i] = "listening"]
       ELSE /\ socket' = socket
            /\ pc' = [pc EXCEPT ![i] = "exited"]
    /\ UNCHANGED <<launch, library, raised, shutdown_request, is_shut_down, workers,
                   pending, fs, h, sent, clientDone>>

\* The client learns the port of its server and holds the endpoint; when
\* its server process has ended the client fails with
\* ConnectionError(ProcessExitedEarly) and holds none.
Discover(i) ==
    /\ pc[i] \in {"listening", "exited"}
    /\ IF pc[i] = "listening"
       THEN /\ h' = [h EXCEPT ![i] = [alive |-> TRUE, port |-> socket[i]]]
            /\ pc' = [pc EXCEPT ![i] = "connected"]
       ELSE /\ h' = h
            /\ pc' = [pc EXCEPT ![i] = "failed"]
    /\ UNCHANGED <<socket, launch, library, raised, shutdown_request, is_shut_down,
                   workers, pending, fs, sent, clientDone>>

\* shutdown_server(): the server closes its socket, the endpoint is
\* destroyed.
ShutdownServer(i) ==
    /\ pc[i] = "connected"
    /\ socket' = [socket EXCEPT ![i] = 0]
    /\ h' = [h EXCEPT ![i] = NoEndpoint]
    /\ pc' = [pc EXCEPT ![i] = "closed"]
    /\ UNCHANGED <<launch, library, raised, shutdown_request, is_shut_down, workers,
                   pending, fs, sent, clientDone>>

PortsNext ==
    \E i \in Clients :
        \/ \E port \in PortNumbers \cup {0} : Spawn(i, port)
        \/ Bind(i)
        \/ Discover(i)
        \/ ShutdownServer(i)

PortsSpec == PortsInit /\ [][PortsNext]_vars

\* ------------------------------------------------------------ properties

\* What is known of the request do_GET is handling.
Handling == pc \in HandlerPcs
Sentinel == h.request = SHUTDOWN_SERVER
Responded == pc = "return"
Sent(status) == \E i \in 1..Len(h.statuses) : h.statuses[i] = status
Failed == h.exc # NoException
\* The line of do_GET the exception passed through.
FailedAt(lines) == Failed /\ h.exc.tb[1].line \in lines
\* The arguments the client left in the file named by the request.
EntryArgs == h.entry[h.file].data[1].obj.a
EntryKwargs == h.entry[h.file].data[2].obj.k
\* The library object the constructor made.
Constructed == LoadLibrary(launch.path, launch.libtype, launch.env).obj

\* C1: when the load fails in the constructor the server never listens: no
\* socket is bound or listening before the load has succeeded, and the
\* failure reaches the caller of the constructor.
C1_NoSocketBeforeLoad ==
    /\ socket # "none" => library.loaded
    /\ pc = "raised" => (raised # NoException /\ socket = "none")

\* While do_GET handles the sentinel it calls no method, opens no file and
\* never waits for the shutdown; on return one thread has been started.
C2_SentinelHandling ==
    (Handling /\ Sentinel) =>
        /\ pc \in {"do_GET", "return"}
        /\ h.calls = <<>> /\ h.reads = <<>> /\ h.writes = <<>>
        /\ fs = h.entry
        /\ Responded => (h.threads = 1 /\ Len(workers) = h.threads /\ ~is_shut_down)

\* C2: a SHUTDOWN_SERVER request calls no method and touches no exchange
\* file; shutdown runs on a worker thread, so do_GET returns without
\* waiting for it, and the loop exits whatever the interleaving.
C2_ShutdownOnWorker ==
    /\ []C2_SentinelHandling
    /\ (pc = "do_GET" /\ Sentinel) ~> (pc = "exited")

C2_Witness ==
    /\ pc = "exited"
    /\ is_shut_down
    /\ workers = <<"done">>

\* C3: a SHUTDOWN_SERVER request is answered with an HTTP response, sent
\* before the loop exits.
C3_SentinelAnswered ==
    /\ (Responded /\ Sentinel) => Len(h.statuses) = 1
    /\ pc = "exited" => Len(h.previous) = 1

\* C4: a 200 for a method request means that the file named in the request
\* holds the pickled return value of exactly one call of the named method
\* on the arguments read from that file, that nothing else was written,
\* and that the write was over before the status went out.
C4_ResultBeforeStatus ==
    (Handling /\ ~Sentinel /\ h.method # LIB32_PATH /\ Sent(OK)) =>
        /\ h.file \in ExchangeFiles
        /\ Len(h.entry[h.file].data) >= 2
        /\ Attribute(h.method) = "user"
        /\ LET r == CallUserMethod(h.method[1], EntryArgs, EntryKwargs) IN
             /\ r.ok
             /\ IsInt(h.protocol)
             /\ fs[h.file] = FileOf(<<Pickled(r.value, int(h.protocol))>>)
        /\ h.calls = <<h.method[1]>>
        /\ h.reads = <<h.file>>
        /\ h.writes = <<h.file>>
        /\ \A f \in ExchangeFiles \ {h.file} : fs[f] = h.entry[f]

C4_Witness ==
    /\ Responded /\ Sent(OK)
    /\ h.method = <<"send_data">>
    /\ h.file = <<"C", ":", "f2">>
    /\ fs[h.file].data[1].obj = ArgsKwargs(<<"IOError", "boom">>, {<<"x", "1">>})

\* C5: every request but the sentinel gets exactly one status: 200 when
\* every step succeeded, else 501 with a text describing the error; never
\* both and never none.
C5_ExactlyOneStatus ==
    (Handling /\ ~Sentinel) =>
        /\ Len(h.statuses) <= 1
        /\ Responded =>
             /\ Len(h.statuses) = 1
             /\ Sent(OK) <=> ~Failed
             /\ ~Sent(OK) => (Sent(NOT_IMPLEMENTED) /\ h.body.kind = h.exc.kind)
        /\ ~Responded => ENABLED MainThread

\* The lines of do_GET that deserialize the arguments and call the method.
DeserializeOrInvoke == 169..172

\* C6 as stated: after a failure in deserialization or invocation the
\* exchange file holds the error record in place of the payload.
C6_ErrorRecordInFile ==
    (Responded /\ FailedAt(DeserializeOrInvoke) /\ h.file \in ExchangeFiles) =>
        /\ Len(fs[h.file].data) = 1
        /\ fs[h.file].data[1].obj = ErrorRecord(h.body)

\* C6, amended: after a failure in deserialization or invocation the error
\* record is the text of the 501 response, and no exchange file has been
\* written: the file named in the request holds what it held on arrival.
C6_ErrorRecordInBody ==
    (Responded /\ FailedAt(DeserializeOrInvoke)) =>
        /\ h.statuses = <<NOT_IMPLEMENTED>>
        /\ h.body.kind = h.exc.kind
        /\ h.body.msg = h.exc.msg
        /\ h.body.func \in {h.exc.tb[i].func : i \in 1..Len(h.exc.tb)}
        /\ h.writes = <<>>
        /\ fs = h.entry

C6_Witness ==
    /\ Responded /\ FailedAt(DeserializeOrInvoke)
    /\ h.calls = <<"fail">>
    /\ h.body.msg = "boom"
    /\ fs[h.file] = RequestFile([args |-> <<"IOError", "boom">>, kwargs |-> {<<"x", "1">>}])

\* C7: a failed request leaves the server serving with the library it
\* loaded, and the next well-formed request is handled as if the failed
\* one had not been sent.
C7_FailureKeepsServing ==
    /\ Failed =>
         /\ pc \in {"except", "return"}
         /\ socket = "listening"
         /\ library = Constructed /\ library.loaded
         /\ ~is_shut_down
         /\ ~shutdown_request
         /\ workers = <<>>
    /\ (h.previous = <<NOT_IMPLEMENTED>> /\ Responded /\ h.file \in ExchangeFiles
        /\ IsInt(h.protocol) /\ ProtocolOK(int(h.protocol))) =>
         /\ h.method = LIB32_PATH =>
              /\ h.statuses = <<OK>>
              /\ fs[h.file] = FileOf(<<Pickled(Str(Constructed.path), int(h.protocol))>>)
         /\ (h.method = <<"send_data">> /\ Len(h.entry[h.file].data) = 2) =>
              /\ h.statuses = <<OK>>
              /\ fs[h.file] = FileOf(<<Pickled(ArgsKwargs(EntryArgs, EntryKwargs),
                                               int(h.protocol))>>)

C7_Witness ==
    /\ h.previous = <<NOT_IMPLEMENTED>>
    /\ Responded
    /\ h.statuses = <<OK>>
    /\ h.method = <<"send_data">>

\* C8 as stated: the location in the error report of every failed request
\* is the innermost frame, and is never the frame of do_GET.
C8_InnermostFrame ==
    (Responded /\ Failed) =>
        /\ h.body.func # "do_GET"
        /\ Frame(h.body.file, h.body.line, h.body.func) = h.exc.tb[Len(h.exc.tb)]

\* C8, amended: the location in the error report is the second entry of
\* the traceback, the frame of the method do_GET called, whether the
\* failure was raised in that method or in a helper below it; and it is
\* the frame of do_GET when the failure was raised in do_GET itself.
C8_SecondFrame ==
    (Responded /\ Failed) =>
        LET tb == h.exc.tb
            loc == Frame(h.body.file, h.body.line, h.body.func) IN
        /\ tb[1].func = "do_GET"
        /\ Len(tb) = 1 => loc = tb[1]
        /\ Len(tb) >= 2 => (loc = tb[2] /\ loc.func = h.method[1] /\ loc.func # "do_GET")

C8_Witness ==
    /\ Responded /\ Failed
    /\ Len(h.exc.tb) = 3
    /\ h.body.func = "deep_fail"

\* The exception came out of the method do_GET called.
RaisedByMethod == Failed /\ Len(h.exc.tb) >= 2

\* C9: when the named method raises kind K with message M, the failure
\* response carries K and M and names that method as the function.
C9_KindMessageMethod ==
    (Responded /\ RaisedByMethod) =>
        /\ h.statuses = <<NOT_IMPLEMENTED>>
        /\ h.body.kind = Failure(EntryArgs).kind
        /\ h.body.msg = Failure(EntryArgs).msg
        /\ h.body.func = h.method[1]
        /\ h.calls = <<h.method[1]>>

C9_Witness ==
    /\ Responded /\ RaisedByMethod
    /\ h.calls = <<"fail">>
    /\ h.body.kind = "IOError" /\ h.body.msg = "boom" /\ h.body.func = "fail"

\* A LIB32_PATH request with a protocol pickle has and a file that can be
\* created.
WellFormedPathRequest ==
    /\ h.method = LIB32_PATH
    /\ IsInt(h.protocol) /\ ProtocolOK(int(h.protocol))
    /\ h.file \in ExchangeFiles

\* C10: a well-formed LIB32_PATH request gets 200 and leaves the path that
\* was resolved at construction in the exchange file, whatever came
\* before; it calls no method and reads no file; the library never changes.
C10_Lib32Path ==
    /\ (Responded /\ WellFormedPathRequest) =>
         /\ h.statuses = <<OK>>
         /\ fs[h.file] = FileOf(<<Pickled(Str(ResolvedPath(launch.path, launch.env)),
                                          int(h.protocol))>>)
         /\ h.calls = <<>>
         /\ h.reads = <<>>
    /\ (Handling /\ h.method = LIB32_PATH) => (h.calls = <<>> /\ h.reads = <<>>)
    /\ pc \notin {"new", "load", "raised"} =>
         (library.loaded /\ library.path = ResolvedPath(launch.path, launch.env))

C10_Witness ==
    /\ Responded /\ WellFormedPathRequest
    /\ h.previous = <<NOT_IMPLEMENTED>>
    /\ launch.path = <<"", "cpp_lib32", "">>
    /\ fs[h.file].data[1].obj.a = <<"/cwd/", "cpp_lib32", ".so">>

\* What the client reads back from the exchange file after a 200: the one
\* object pickle.load finds in it.
ClientReads(file) == fs[file].data[1].obj

\* C11: round trip through the echo method send_data: after the 200 the
\* exchange file holds the (args, kwargs) pair the client wrote, for no
\* arguments, one positional, keywords only, mixed, and nested containers.
C11_EchoRoundTrip ==
    (Responded /\ Sent(OK) /\ h.method = <<"send_data">>) =>
        \E p \in Payloads :
            /\ h.entry[h.file] = RequestFile(p)
            /\ Len(fs[h.file].data) = 1
            /\ ClientReads(h.file) = ArgsKwargs(p.args, p.kwargs)
            /\ ClientReads(h.file).a = p.args
            /\ ClientReads(h.file).k = p.kwargs

C11_Witness ==
    /\ Responded /\ Sent(OK) /\ h.method = <<"send_data">>
    /\ ClientReads(h.file).a = <<"111", "(", "1", "2", ")">>
    /\ ClientReads(h.file).k = {<<"x", "[", "0", "1", "]">>,
                                <<"my_dict", "{", "text", "abcd", "}">>}

\* The format versions and the exchange paths the decoding is checked for:
\* versions without a colon, paths of up to MaxPathLen characters that may
\* be colons.
MaxPathLen == 3
FormatVersions == {<<>>, <<"2">>, <<"9">>, <<"x">>, <<"1", "0">>, <<"-", "1">>}
PathsUpTo(n) == UNION { [1..k -> {"C", ":", "f2", "/"}] : k \in 0..n }
Colons(s) == Cardinality({ i \in DOMAIN s : s[i] = ":" })

\* The decoding of do_GET applied to every encoded line.
SplitRecovers ==
    \A m \in MethodNames \cup {""}, v \in FormatVersions, f \in PathsUpTo(MaxPathLen) :
        split(StripSlash(RequestPath(RequestLine(m, v, f))), ":", 2) = <<<<m>>, v, f>>

\* C12: decoding '/<method>:<version>:<path>' recovers the triple that was
\* encoded, colons in the exchange path included; a line with fewer than
\* three fields that is not the sentinel is answered with a failure and
\* nothing is invoked.
C12_RequestDecoding ==
    /\ SplitRecovers
    /\ (Handling /\ pc # "do_GET" /\ ~Sentinel /\ Colons(h.request) >= 2) =>
           /\ ~FailedAt({165})
           /\ \E m \in MethodNames, v \in FormatVersions, f \in ExchangeFiles \cup {NoDir} :
                  /\ h.request = RequestLine(m, v, f)
                  /\ h.method = <<m>> /\ h.protocol = v /\ h.file = f
    /\ (Handling /\ pc # "do_GET" /\ ~Sentinel /\ Colons(h.request) < 2) =>
           /\ FailedAt({165})
           /\ h.calls = <<>> /\ h.reads = <<>> /\ h.writes = <<>>
           /\ Responded => h.statuses = <<NOT_IMPLEMENTED>>

C12_Witness ==
    /\ Responded /\ Sent(OK)
    /\ h.request = RequestLine("send_data", <<"2">>, <<"C", ":", "f2">>)
    /\ h.file = <<"C", ":", "f2">>
    /\ h.writes = <<h.file>>

\* The constructor has been called and has ended.
Called == pc \in {"loaded", "failed"} /\ h.constructs > 0
\* The path the loader looks for: the absolute form of the given path, with
\* the extension of the platform when the given path has none.
PlatformExtension ==
    CASE launch.env.platform = "windows" -> ".dll"
      [] launch.env.platform = "linux" -> ".so"
      [] launch.env.platform = "mac" -> ".dylib"
      [] OTHER -> ""
ExpectedPath ==
    << IF launch.path[1] = "" THEN "/cwd/" ELSE launch.path[1], launch.path[2],
       IF launch.path[3] = "" THEN PlatformExtension ELSE launch.path[3] >>
NoHandle == ~library.loaded /\ library.lib = "" /\ library.net = ""

\* C13: when the resolved path is no existing file the constructor fails
\* with the not-found IOError whatever libtype is, before any native or
\* managed load is attempted, and no object with a lib or a net reference
\* is produced.
C13_NotFoundFirst ==
    (Called /\ ExpectedPath \notin launch.env.files) =>
        /\ pc = "failed"
        /\ raised.kind = "IOError" /\ raised.msg = "Cannot find the shared library"
        /\ h.loads = <<>> /\ h.checks = 0 /\ fs = h.before
        /\ NoHandle /\ h.got = <<>>

C13_Witness ==
    /\ Called /\ launch.libtype = "java" /\ launch.path = <<"", "plain", "">>
    /\ launch.env.platform = "linux"
    /\ raised.kind = "IOError" /\ NoHandle

\* libtype matches the file: a library the native loader accepts, asked
\* for with a loader ctypes has on the platform, or an assembly the managed
\* runtime accepts, asked for as 'net' with pythonnet installed.
MatchingKind ==
    \/ /\ launch.libtype = "cdll"
       /\ ExpectedPath \in launch.env.loadable
    \/ /\ launch.libtype \in {"windll", "oledll"} /\ launch.env.platform = "windows"
       /\ ExpectedPath \in launch.env.loadable
    \/ /\ launch.libtype = "net" /\ launch.env.pythonnet /\ launch.env.netload = "ok"

\* C14: for an existing library file and a matching libtype the constructor
\* succeeds; the path of the object is the absolute form of the given path,
\* with the platform's extension appended exactly when the given path had
\* none, and every later read of the path gives that same value.
C14_PathResolved ==
    (Called /\ ExpectedPath \in launch.env.files /\ MatchingKind) =>
        /\ pc = "loaded" /\ raised = NoException
        /\ library.loaded /\ library.path = ExpectedPath
        /\ (launch.path[3] # "" => library.path[3] = launch.path[3])
        /\ library.path[2] = launch.path[2]
        /\ \A i \in 1..Len(h.got) : h.got[i].attr = "path" => h.got[i].value = ExpectedPath

C14_Witness ==
    /\ pc = "loaded" /\ launch.path = <<"", "cpp_lib32", "">>
    /\ launch.env.platform = "mac"
    /\ library.path = <<"/cwd/", "cpp_lib32", ".dylib">>
    /\ Len(h.got) >= 2 /\ h.got[2] = [attr |-> "path", value |-> library.path]

\* What the constructor raises on this machine for a libtype it does not
\* support.
UnsupportedKindError ==
    LET r == LoadLibrary(launch.path, "java", [launch.env EXCEPT !.config = h.before]) IN
    [kind |-> r.kind, msg |-> r.msg, tb |-> <<>>]

\* C15: libtype 'net' on a machine without pythonnet fails with an error of
\* its own (the runtime is unavailable), of another kind than the error
\* raised for an unsupported libtype.
C15_RuntimeUnavailable ==
    (Called /\ launch.libtype = "net" /\ ~launch.env.pythonnet
       /\ ExpectedPath \in launch.env.files) =>
        /\ pc = "failed" /\ NoHandle
        /\ raised.kind # UnsupportedKindError.kind

\* The runtime rejects the assembly as a mixed mode assembly.
MixedModeRejected ==
    /\ launch.libtype = "net" /\ launch.env.pythonnet
    /\ launch.env.netload = "mixed" /\ ExpectedPath \in launch.env.files
\* The messages that tell the caller to try again.
TryAgainMessages == {"Added the property. Try again",
                     "Added the property to fix the error. Try again"}

\* C16: when the runtime rejects the assembly as a mixed mode assembly the
\* constructor checks the config file exactly once and then fails, whatever
\* the check found; it loads the assembly once only, gives no object, and
\* when the check wrote the file the error tells the caller to try again.
C16_RepairOnceThenFail ==
    (Called /\ MixedModeRejected) =>
        /\ pc = "failed" /\ raised.kind = "IOError" /\ NoHandle
        /\ h.checks = 1 /\ h.loads = <<"LoadFile">>
        /\ (fs # h.before => raised.msg \in TryAgainMessages)
        /\ (fs = h.before => raised.msg \notin TryAgainMessages)

C16_Witness ==
    /\ Called /\ MixedModeRejected /\ h.constructs = 1
    /\ h.before = ConfigOf(<<"<configuration>", NL, "</configuration>", NL>>)
    /\ fs = ConfigOf(<<"<configuration>", NL>> \o NET_FRAMEWORK_FIX
                     \o <<"</configuration>", NL>>)
    /\ raised.msg = "Added the property. Try again"

\* The config files with the property enabled, and those the check cannot
\* repair: the property set to false, another root tag, invalid XML.
EnabledConfigs ==
    { ConfigOf(<<XmlDecl, NL, "<configuration>", NL, PolicyTrue, NL, SupportedRuntime, NL,
                 "</startup>", NL, "</configuration>", NL>>),
      ConfigOf(<<"<configuration>", NL, PolicyTrueCap, "</startup>", NL,
                 "</configuration>", NL>>) }
ProblemConfigs ==
    { ConfigOf(<<"<configuration>", NL, PolicyFalse, "</startup>", NL,
                 "</configuration>", NL>>),
      ConfigOf(<<"<config>", NL, "</config>", NL>>),
      ConfigOf(<<"<configuration>", NL>>),
      ConfigOf(<<"<">>),
      ConfigOf(<<>>) }
\* The check has run on one of the config files the machine starts with.
Checked == Called /\ MixedModeRejected /\ h.before \in ConfigFiles
CheckStatus == check_dot_net_config(h.before).status

\* C19: check_dot_net_config gives 0 exactly for an existing well-formed
\* file with root configuration and the property true in any letter case,
\* -1 exactly for an existing file that is invalid XML, has another root or
\* has the property not true, and 1 otherwise (no file, or a file without
\* the property); it writes the file in the cases with status 1 only.
C19_StatusAndFrame ==
    Checked =>
        /\ CheckStatus \in {-1, 0, 1}
        /\ CheckStatus = 0 <=> h.before \in EnabledConfigs
        /\ CheckStatus = -1 <=> h.before \in ProblemConfigs
        /\ CheckStatus = 1 <=> (~h.before.exists
                                  \/ h.before \notin EnabledConfigs \cup ProblemConfigs)
        /\ CheckStatus \in {-1, 0} => fs = h.before
        /\ CheckStatus = 1 => (fs # h.before /\ fs.exists)
        /\ CheckStatus # 0 => raised.msg = check_dot_net_config(h.before).msg
        /\ CheckStatus = 0 => raised.msg \notin TryAgainMessages

C19_Witness ==
    /\ Checked /\ CheckStatus = 0 /\ fs = h.before
    /\ h.before = ConfigOf(<<"<configuration>", NL, PolicyTrueCap, "</startup>", NL,
                             "</configuration>", NL>>)

\* The request names a method the server object does not have.
UnknownMethod == Handling /\ h.method = <<"nosuch">>

\* C20: a request that names a method the server object does not have is
\* answered with the failure status, no method is invoked, and the exchange
\* file holds what it held when the request arrived; when the arguments
\* could be read the failure is the AttributeError of the lookup.
C20_UnknownMethod ==
    UnknownMethod =>
        /\ h.calls = <<>> /\ h.writes = <<>>
        /\ fs[h.file] = h.entry[h.file]
        /\ pc \notin {"open_wb", "dump", "send_200", "in_shutdown"}
        /\ Responded =>
               /\ h.statuses = <<NOT_IMPLEMENTED>>
               /\ (h.entry[h.file] \in {RequestFile(p) : p \in Payloads}) =>
                      (h.body.kind = "AttributeError" /\ FailedAt({172}))

C20_Witness ==
    /\ UnknownMethod /\ Responded /\ h.statuses = <<NOT_IMPLEMENTED>>
    /\ h.body.kind = "AttributeError"
    /\ fs[h.file] = RequestFile([args |-> <<"True">>, kwargs |-> {}])

\* C18: the ports of the endpoints of clients that are alive at the same
\* time, each with a server of its own, are pairwise distinct, in whatever
\* order the clients connect.
C18_UniquePorts ==
    \A i \in DOMAIN h, j \in DOMAIN h :
        (i # j /\ h[i].alive /\ h[j].alive) =>
            /\ h[i].port # h[j].port
            /\ h[i].port = socket[i] /\ h[j].port = socket[j]

C18_Witness ==
    /\ \A i \in 1..3 : h[i].alive
    /\ launch[1] = 0 /\ launch[2] = 8000 /\ launch[3] = 0
    /\ pc[1] = "connected"

\* A dispatch is in progress: do_GET has been entered and has not returned.
Dispatching == Handling /\ pc # "return"
\* A step of a shutdown worker: neither the loop thread nor a client moves.
WorkerStep == workers' # workers /\ pc' = pc /\ sent' = sent
\* The step writes an exchange file as the running dispatch does: only the
\* file of its request, recorded among its writes.
OwnWrite ==
    /\ h'.writes # <<>> /\ h'.writes[Len(h'.writes)] = h.file
    /\ \A f \in DOMAIN fs : f # h.file => fs'[f] = fs[f]

\* C21: requests are dispatched one at a time: while do_GET is running, a
\* request that arrives waits and the frame is that of the same request up
\* to its return; an exchange file changes only by the write of the running
\* dispatch or by a client, and a step of the shutdown worker touches no
\* exchange file.
C21_OneAtATime ==
    [][ /\ Dispatching =>
           /\ pc' \in HandlerPcs
           /\ h'.request = h.request /\ h'.entry = h.entry
           /\ Len(h'.reads) >= Len(h.reads) /\ Len(h'.writes) >= Len(h.writes)
           /\ \A i \in 1..Len(h'.reads) : h'.reads[i] = h'.file
           /\ \A i \in 1..Len(h'.writes) : h'.writes[i] = h'.file
           /\ (fs' # fs /\ sent' = sent) => OwnWrite
        /\ WorkerStep => (fs' = fs /\ h' = h /\ pending' = pending)
      ]_vars

C21_Witness ==
    /\ pc = "dump" /\ h.method = <<"send_data">> /\ h.reads = <<h.file>>
    /\ pending # <<>>
    /\ fs[<<"C", ":", "f2">>] # h.entry[<<"C", ":", "f2">>]

\* C22: HTTPServer.shutdown is run only for the SHUTDOWN_SERVER request and
\* only on a worker thread: no request with another method name, the name
\* shutdown included, makes do_GET call it on the thread of the loop, where
\* it would wait forever for the loop it is holding up.
C22_ShutdownOnlyBySentinel ==
    /\ pc # "in_shutdown"
    /\ Handling => \A i \in 1..Len(h.calls) : h.calls[i] # "shutdown"
    /\ shutdown_request => \E i \in 1..Len(workers) : workers[i] # "started"

\* C23: a request that is not the sentinel and whose format version is no
\* integer is answered with the failure status, the named method has not
\* been invoked, and the exchange file is as it was when the request
\* arrived, neither modified nor truncated.
C23_BadVersionNoEffect ==
    (Responded /\ ~Sentinel /\ h.protocol = <<"x">>) =>
        /\ h.statuses = <<NOT_IMPLEMENTED>>
        /\ h.calls = <<>>
        /\ fs[h.file] = h.entry[h.file]

\* C24: the repair is idempotent: when check_dot_net_config has returned 1,
\* having created the config file or inserted the property into an existing
\* well-formed file of whatever line layout, the next call on the untouched
\* file returns 0 and leaves the file unchanged.
C24_RepairIdempotent ==
    (Called /\ Len(h.returned) = 2 /\ h.returned[1] = 1) =>
        (h.returned[2] = 0 /\ fs = h.before)

====
